---- MODULE Spec2Model ----
(***************************************************************************)
(* A model of term/__init__.py: the terminal mode setters (setraw,         *)
(* setcbreak), the scoped mode guards (rawmode, cbreakmode), the device    *)
(* stream (ttystream) and the DSR 6 query protocol (_readyx, getyx,        *)
(* getmaxyx).                                                              *)
(*                                                                         *)
(* A flag word is modelled as the set of the bits that are set in it, so   *)
(* that  a | b  is  a \cup b  and  a & ~b  is  a \ b.  A control character *)
(* is a number in 0..MaxCc.  One terminal device is modelled; every        *)
(* descriptor and stream of the model refers to it.                        *)
(***************************************************************************)
EXTENDS Integers, Sequences, FiniteSets, TLC

VARIABLES
    attrs,    \* the device's terminal attributes (what tcgetattr reads)
    inq,      \* bytes that arrived from the terminal and are not read yet
    wire,     \* bytes the terminal has sent that have not arrived yet
    out,      \* the events on the streams, in order: writes, reads, ... (history)
    term,     \* the terminal: how it answers DSR 6, and its screen size
    cursor,   \* the terminal's cursor, <<row, col>>
    guards,   \* the mode guards whose scope is open, innermost last
    exc,      \* the error that is propagating, or "none"
    stk,      \* the call stack of the query functions, innermost last
    streams,  \* the streams ttystream has opened, in order of opening
    setcalls, \* how many tcsetattr calls the last operation made (history)
    last      \* the last operation and what it did (history)

vars == <<attrs, inq, wire, out, term, cursor, guards, exc, stk, streams, setcalls, last>>

-----------------------------------------------------------------------------
(* Bounds of the model. *)

\* control characters take the values 0..MaxCc
MaxCc == 1

-----------------------------------------------------------------------------
(* Attribute codec: the indexes of the termios list. *)

IFLAG == 0
OFLAG == 1
CFLAG == 2
LFLAG == 3
ISPEED == 4
OSPEED == 5
CC == 6

(* The termios names the module imports.  Each flag is the set of its bits. *)
BRKINT == {"BRKINT"}
ICRNL == {"ICRNL"}
INPCK == {"INPCK"}
ISTRIP == {"ISTRIP"}
IXON == {"IXON"}
OPOST == {"OPOST"}
CSIZE == {"CSIZE0", "CSIZE1"}
CS8 == {"CSIZE0", "CSIZE1"}
PARENB == {"PARENB"}
ECHO == {"ECHO"}
ICANON == {"ICANON"}
IEXTEN == {"IEXTEN"}
ISIG == {"ISIG"}
VMIN == "VMIN"
VTIME == "VTIME"
TCSANOW == "TCSANOW"
TCSADRAIN == "TCSADRAIN"
TCSAFLUSH == "TCSAFLUSH"

(* The bits of each flag word: those the setters name and one they do not. *)
IBits == BRKINT \cup ICRNL \cup INPCK \cup ISTRIP \cup IXON \cup {"IGNBRK"}
OBits == OPOST \cup {"ONLCR"}
CBits == CSIZE \cup PARENB \cup {"CREAD"}
LBits == ECHO \cup ICANON \cup IEXTEN \cup ISIG \cup {"ECHOE"}
Speeds == {"B9600", "B38400"}
CcSlots == {"VINTR", VTIME, VMIN}
CcVals == 0..MaxCc
Whens == {TCSANOW, TCSADRAIN, TCSAFLUSH}

\* the list tcgetattr returns: [iflag, oflag, cflag, lflag, ispeed, ospeed, cc]
Mode(i, o, c, l, is, os, cc) ==
    [k \in 0..6 |-> CASE k = IFLAG -> i
                      [] k = OFLAG -> o
                      [] k = CFLAG -> c
                      [] k = LFLAG -> l
                      [] k = ISPEED -> is
                      [] k = OSPEED -> os
                      [] OTHER -> cc]

\* the attributes of a terminal in its usual line mode
CookedMode ==
    Mode(BRKINT \cup ICRNL \cup IXON, OPOST \cup {"ONLCR"},
         CS8 \cup {"CREAD"}, ECHO \cup ICANON \cup IEXTEN \cup ISIG \cup {"ECHOE"},
         "B38400", "B38400", [s \in CcSlots |-> IF s = VTIME THEN 0 ELSE 1])

\* attributes with every modelled bit set: 7-bit characters would need a bit
\* cleared, so this one has all of CSIZE and parity on
FullMode ==
    Mode(IBits, OBits, CBits, LBits, "B9600", "B38400", [s \in CcSlots |-> MaxCc])

\* attributes with no bit set (5-bit characters) and every character 0
EmptyMode ==
    Mode({}, {}, {}, {}, "B9600", "B9600", [s \in CcSlots |-> 0])

\* every attribute value that differs from one of the three above in at most
\* one of the seven fields
AllModes ==
    LET bases == {CookedMode, FullMode, EmptyMode}
    IN  bases
        \cup {[b EXCEPT ![IFLAG] = v] : b \in bases, v \in SUBSET IBits}
        \cup {[b EXCEPT ![OFLAG] = v] : b \in bases, v \in SUBSET OBits}
        \cup {[b EXCEPT ![CFLAG] = v] : b \in bases, v \in SUBSET CBits}
        \cup {[b EXCEPT ![LFLAG] = v] : b \in bases, v \in SUBSET LBits}
        \cup {[b EXCEPT ![ISPEED] = v] : b \in bases, v \in Speeds}
        \cup {[b EXCEPT ![OSPEED] = v] : b \in bases, v \in Speeds}
        \cup {[b EXCEPT ![CC] = v] : b \in bases, v \in [CcSlots -> CcVals]}

-----------------------------------------------------------------------------
(* The device calls of termios. *)

\* tcgetattr(fd): a fresh list holding the device's attributes
tcgetattr == attrs

\* tcsetattr(fd, when, mode): the device takes the attributes, and TCSAFLUSH
\* also discards the input that arrived and was not read; a call that raises
\* (ok = FALSE) leaves the device as it was
tcsetattr(when, mode, ok) ==
    /\ attrs' = IF ok THEN mode ELSE attrs
    /\ inq' = IF ok /\ when = TCSAFLUSH THEN <<>> ELSE inq
    /\ setcalls' = 1

\* the operation raised before it reached a tcsetattr call
NoSetCall ==
    /\ UNCHANGED <<attrs, inq>>
    /\ setcalls' = 0

-----------------------------------------------------------------------------
(* Mode setters. *)

\* setraw with the local-flag mask of setcbreak: ISIG and IEXTEN stay set
setraw_mode_keeps_signals(mode, min, time) ==
    LET m1 == [mode EXCEPT ![IFLAG] = mode[IFLAG] \ (BRKINT \cup ICRNL \cup INPCK \cup ISTRIP \cup IXON)]
        m2 == [m1 EXCEPT ![OFLAG] = m1[OFLAG] \ OPOST]
        m3 == [m2 EXCEPT ![CFLAG] = (m2[CFLAG] \ (CSIZE \cup PARENB)) \cup CS8]
        m4 == [m3 EXCEPT ![LFLAG] = m3[LFLAG] \ (ECHO \cup ICANON)]
    IN  [m4 EXCEPT ![CC] = [m4[CC] EXCEPT ![VMIN] = min, ![VTIME] = time]]

\* setraw that zeroes the output flags instead of clearing OPOST in them
setraw_mode_zeroes_oflag(mode, min, time) ==
    LET m1 == [mode EXCEPT ![IFLAG] = mode[IFLAG] \ (BRKINT \cup ICRNL \cup INPCK \cup ISTRIP \cup IXON)]
        m2 == [m1 EXCEPT ![OFLAG] = {}]
        m3 == [m2 EXCEPT ![CFLAG] = (m2[CFLAG] \ (CSIZE \cup PARENB)) \cup CS8]
        m4 == [m3 EXCEPT ![LFLAG] = m3[LFLAG] \ (ECHO \cup ICANON \cup IEXTEN \cup ISIG)]
    IN  [m4 EXCEPT ![CC] = [m4[CC] EXCEPT ![VMIN] = min, ![VTIME] = time]]

\* setraw, lines 25-31: the list it hands to tcsetattr
setraw_mode(mode, min, time) ==
    LET m1 == [mode EXCEPT ![IFLAG] = mode[IFLAG] \ (BRKINT \cup ICRNL \cup INPCK \cup ISTRIP \cup IXON)]
        m2 == [m1 EXCEPT ![OFLAG] = m1[OFLAG] \ OPOST]
        m3 == [m2 EXCEPT ![CFLAG] = m2[CFLAG] \ (CSIZE \cup PARENB)]
        m4 == [m3 EXCEPT ![CFLAG] = m3[CFLAG] \cup CS8]
        m5 == [m4 EXCEPT ![LFLAG] = m4[LFLAG] \ (ECHO \cup ICANON \cup IEXTEN \cup ISIG)]
        m6 == [m5 EXCEPT ![CC] = [m5[CC] EXCEPT ![VMIN] = min]]
    IN  [m6 EXCEPT ![CC] = [m6[CC] EXCEPT ![VTIME] = time]]

\* setcbreak with the local-flag mask of setraw: ISIG and IEXTEN are cleared too
setcbreak_mode_clears_signals(mode, min, time) ==
    LET m1 == [mode EXCEPT ![LFLAG] = mode[LFLAG] \ (ECHO \cup ICANON \cup IEXTEN \cup ISIG)]
    IN  [m1 EXCEPT ![CC] = [m1[CC] EXCEPT ![VMIN] = min, ![VTIME] = time]]

\* setcbreak, lines 38-40: the list it hands to tcsetattr
setcbreak_mode(mode, min, time) ==
    LET m1 == [mode EXCEPT ![LFLAG] = mode[LFLAG] \ (ECHO \cup ICANON)]
        m2 == [m1 EXCEPT ![CC] = [m1[CC] EXCEPT ![VMIN] = min]]
    IN  [m2 EXCEPT ![CC] = [m2[CC] EXCEPT ![VTIME] = time]]

\* The outcomes of a setter: it returns, or its tcgetattr raises, or its
\* tcsetattr raises.
SetterOutcomes == {"ok", "get_raises", "set_raises"}

\* setraw(fd, when, min, time) with outcome o
setraw(when, min, time, o) ==
    IF o = "get_raises" THEN NoSetCall
    ELSE tcsetattr(when, setraw_mode(tcgetattr, min, time), o = "ok")

\* setcbreak(fd, when, min, time) with outcome o
setcbreak(when, min, time, o) ==
    IF o = "get_raises" THEN NoSetCall
    ELSE tcsetattr(when, setcbreak_mode(tcgetattr, min, time), o = "ok")

\* the value of the history variable when nothing has been done yet
NoEvent == [op |-> "none"]

-----------------------------------------------------------------------------
(* SpecSet: one call of setraw or setcbreak on a device whose attributes   *)
(* are any value of AllModes.                                              *)

InitRest ==
    /\ inq = <<>>
    /\ wire = <<>>
    /\ out = <<>>
    /\ term = [kind |-> "mute", size |-> <<24, 80>>]
    /\ cursor = <<1, 1>>
    /\ guards = <<>>
    /\ exc = "none"
    /\ stk = <<>>
    /\ streams = <<>>
    /\ setcalls = 0
    /\ last = NoEvent

InitSet ==
    /\ attrs \in AllModes
    /\ InitRest

CallSetraw ==
    /\ last = NoEvent
    /\ \E when \in Whens, min \in CcVals, time \in CcVals, o \in SetterOutcomes :
        /\ setraw(when, min, time, o)
        /\ exc' = IF o = "ok" THEN "none" ELSE "DeviceError"
        /\ last' = [op |-> "setraw", pre |-> attrs, when |-> when, min |-> min,
                    time |-> time, outcome |-> o]
    /\ UNCHANGED <<wire, out, term, cursor, guards, stk, streams>>

CallSetcbreak ==
    /\ last = NoEvent
    /\ \E when \in Whens, min \in CcVals, time \in CcVals, o \in SetterOutcomes :
        /\ setcbreak(when, min, time, o)
        /\ exc' = IF o = "ok" THEN "none" ELSE "DeviceError"
        /\ last' = [op |-> "setcbreak", pre |-> attrs, when |-> when, min |-> min,
                    time |-> time, outcome |-> o]
    /\ UNCHANGED <<wire, out, term, cursor, guards, stk, streams>>

NextSet == CallSetraw \/ CallSetcbreak

SpecSet == InitSet /\ [][NextSet]_vars

-----------------------------------------------------------------------------
(* Scoped mode guards.  An open scope is a record on the guards stack:     *)
(*   kind     "raw" or "cbreak"                                            *)
(*   saved    self.saved, the list tcgetattr returned in __enter__         *)
(*   pre      the device's attributes right before __enter__ (history)     *)
(*   child    the kind of the last scope closed inside this one (history)  *)
(* The operators below change attrs, inq, setcalls and guards only.        *)

\* the scopes that may be open at once
MaxDepth == 2

\* The outcomes of __enter__: it returns, or its own tcgetattr raises
\* (line 54 or 71), or the setter's tcgetattr or tcsetattr raises.
EnterOutcomes == {"ok", "read_raises", "get_raises", "set_raises"}

\* The outcomes of __exit__: it returns, or its tcsetattr raises.
ExitOutcomes == {"ok", "set_raises"}

\* the scope that __enter__ opens when it returns
Opened(kind, saved) ==
    [kind |-> kind, saved |-> saved, pre |-> attrs, child |-> "none"]

\* the guards stack once the innermost scope is closed
Closed ==
    LET n == Len(guards)
        top == guards[n]
        rest == SubSeq(guards, 1, n - 1)
    IN  IF n = 1 THEN rest
        ELSE [rest EXCEPT ![n - 1].child = top.kind]

\* rawmode.__enter__ that applies raw mode before it takes the snapshot
rawmode_enter_saves_late(when, min, time, o) ==
    /\ setraw(when, min, time, IF o = "read_raises" THEN "ok" ELSE o)
    /\ guards' = IF o = "ok" THEN Append(guards, Opened("raw", attrs')) ELSE guards

\* rawmode.__enter__, lines 53-55, with outcome o
rawmode_enter(when, min, time, o) ==
    /\ IF o = "read_raises" THEN NoSetCall ELSE setraw(when, min, time, o)
    /\ guards' = IF o = "ok" THEN Append(guards, Opened("raw", tcgetattr)) ELSE guards

\* rawmode.__exit__, lines 57-58, with outcome o
rawmode_exit(o) ==
    /\ tcsetattr(TCSAFLUSH, guards[Len(guards)].saved, o = "ok")
    /\ guards' = Closed

\* cbreakmode.__enter__ that applies cbreak mode before it takes the snapshot
cbreakmode_enter_saves_late(when, min, time, o) ==
    /\ setcbreak(when, min, time, IF o = "read_raises" THEN "ok" ELSE o)
    /\ guards' = IF o = "ok" THEN Append(guards, Opened("cbreak", attrs')) ELSE guards

\* cbreakmode.__enter__ that keeps the snapshot in a slot all guards share
\* (a class attribute): entering overwrites the snapshot of every open scope
cbreakmode_enter_shared_slot(when, min, time, o) ==
    /\ IF o = "read_raises" THEN NoSetCall ELSE setcbreak(when, min, time, o)
    /\ guards' = IF o = "ok"
                 THEN Append([i \in 1..Len(guards) |-> [guards[i] EXCEPT !.saved = tcgetattr]],
                             Opened("cbreak", tcgetattr))
                 ELSE guards

\* cbreakmode.__enter__, lines 70-72, with outcome o
cbreakmode_enter(when, min, time, o) ==
    /\ IF o = "read_raises" THEN NoSetCall ELSE setcbreak(when, min, time, o)
    /\ guards' = IF o = "ok" THEN Append(guards, Opened("cbreak", tcgetattr)) ELSE guards

\* cbreakmode.__exit__ that restores the snapshot of the outermost open scope
cbreakmode_exit_restores_outermost(o) ==
    /\ tcsetattr(TCSAFLUSH, guards[1].saved, o = "ok")
    /\ guards' = Closed

\* cbreakmode.__exit__, lines 74-75, with outcome o
cbreakmode_exit(o) ==
    /\ tcsetattr(TCSAFLUSH, guards[Len(guards)].saved, o = "ok")
    /\ guards' = Closed

-----------------------------------------------------------------------------
(* Spec: a program that opens and leaves raw-mode and cbreak-mode scopes   *)
(* on the terminal, properly nested, with bodies that may change the       *)
(* attributes themselves and may raise.                                    *)

\* the attributes a scope's body may set
BodyModes == {CookedMode, FullMode, EmptyMode}

\* the <<min, time>> arguments the scopes are entered with: the defaults of
\* __init__ and the pair getyx and getmaxyx pass
GuardArgs == {<<1, 0>>, <<0, 1>>}

Init ==
    /\ attrs \in BodyModes
    /\ InitRest

\* what an enter records
Entered(kind, o) ==
    [op |-> "enter", kind |-> kind, outcome |-> o, pre |-> attrs, depth |-> Len(guards)]

\* what an exit records: the scope it closed and how its body had ended
Exited(o) ==
    LET top == guards[Len(guards)]
    IN  [op |-> "exit", kind |-> top.kind, outcome |-> o, pre |-> top.pre,
         saved |-> top.saved, before |-> attrs, child |-> top.child, body |-> exc]

\* with rawmode(fd, when, min, time): the scope is entered
EnterRaw ==
    /\ exc = "none"
    /\ Len(guards) < MaxDepth
    /\ \E when \in Whens, mt \in GuardArgs, o \in EnterOutcomes :
        /\ rawmode_enter(when, mt[1], mt[2], o)
        /\ exc' = IF o = "ok" THEN "none" ELSE "DeviceError"
        /\ last' = Entered("raw", o)
    /\ UNCHANGED <<wire, out, term, cursor, stk, streams>>

\* with cbreakmode(fd, when, min, time): the scope is entered
EnterCbreak ==
    /\ exc = "none"
    /\ Len(guards) < MaxDepth
    /\ \E when \in Whens, mt \in GuardArgs, o \in EnterOutcomes :
        /\ cbreakmode_enter(when, mt[1], mt[2], o)
        /\ exc' = IF o = "ok" THEN "none" ELSE "DeviceError"
        /\ last' = Entered("cbreak", o)
    /\ UNCHANGED <<wire, out, term, cursor, stk, streams>>

\* the body of the innermost scope sets the attributes itself
BodySets ==
    /\ exc = "none"
    /\ guards # <<>>
    /\ \E m \in BodyModes : tcsetattr(TCSANOW, m, TRUE)
    /\ last' = [op |-> "body"]
    /\ UNCHANGED <<wire, out, term, cursor, guards, exc, stk, streams>>

\* the body of the innermost scope raises
BodyRaises ==
    /\ exc = "none"
    /\ guards # <<>>
    /\ exc' = "BodyError"
    /\ setcalls' = 0
    /\ last' = [op |-> "body"]
    /\ UNCHANGED <<attrs, inq, wire, out, term, cursor, guards, stk, streams>>

\* the innermost scope, a rawmode, is left: by its body returning, or by an
\* error passing through it.  An error of __exit__ replaces the one passing.
ExitRaw ==
    /\ guards # <<>>
    /\ guards[Len(guards)].kind = "raw"
    /\ \E o \in ExitOutcomes :
        /\ rawmode_exit(o)
        /\ exc' = IF o = "ok" THEN exc ELSE "DeviceError"
        /\ last' = Exited(o)
    /\ UNCHANGED <<wire, out, term, cursor, stk, streams>>

\* the innermost scope, a cbreakmode, is left
ExitCbreak ==
    /\ guards # <<>>
    /\ guards[Len(guards)].kind = "cbreak"
    /\ \E o \in ExitOutcomes :
        /\ cbreakmode_exit(o)
        /\ exc' = IF o = "ok" THEN exc ELSE "DeviceError"
        /\ last' = Exited(o)
    /\ UNCHANGED <<wire, out, term, cursor, stk, streams>>

\* an error that left every scope is handled by the caller
Caught ==
    /\ guards = <<>>
    /\ exc # "none"
    /\ exc' = "none"
    /\ setcalls' = 0
    /\ last' = [op |-> "caught"]
    /\ UNCHANGED <<attrs, inq, wire, out, term, cursor, guards, stk, streams>>

Next ==
    \/ EnterRaw
    \/ EnterCbreak
    \/ BodySets
    \/ BodyRaises
    \/ ExitRaw
    \/ ExitCbreak
    \/ Caught

Spec == Init /\ [][Next]_vars

-----------------------------------------------------------------------------
(* Streams, bytes and the call stack of the query functions.               *)
(* A byte is a one-character string; ESC stands for '\033'.  A stream is   *)
(* named by its position in streams; the name 0 is None.  Every stream     *)
(* reads from and writes to the one terminal device, unbuffered.           *)

ESC == "ESC"
DigitChars == <<"0", "1", "2", "3", "4", "5", "6", "7", "8", "9">>
Digits == {DigitChars[i] : i \in 1..10}

\* an entry of out: what happened (e), on which stream (s), and with what
Ev(e, what, row, col, s) == [e |-> e, what |-> what, row |-> row, col |-> col, s |-> s]

\* a frame of the call stack: the function, where it is, and its locals;
\* pre and cur are the device's attributes and the terminal's cursor when
\* the function was called (history)
Frame(fn, pc, tty) ==
    [fn |-> fn, pc |-> pc, tty |-> tty, row |-> 0, col |-> 0, savedyx |-> <<0, 0>>,
     p |-> <<>>, pre |-> attrs, cur |-> cursor]

\* stream.read(1) returning c.  In canonical mode no byte is handed over
\* before a line end, and no reply holds one.  Otherwise the first unread
\* byte is returned; when there is none, a read with VMIN = 0 returns ''
\* (at once, or after VTIME tenths of a second) and a read with VMIN > 0
\* waits.
stream_read(c) ==
    /\ attrs[LFLAG] \cap ICANON = {}
    /\ IF inq # <<>>
       THEN c = Head(inq) /\ inq' = Tail(inq)
       ELSE attrs[CC][VMIN] = 0 /\ c = "" /\ inq' = inq

\* the caller's frame once the call it waits for has returned value:
\* line 127 and line 143 (row, col = _readyx(tty)), line 141 (savedyx = getyx())
Resume(caller, value) ==
    IF caller.pc = "savedyx"
    THEN [caller EXCEPT !.savedyx = value, !.pc = "jump"]
    ELSE [caller EXCEPT !.row = value[1], !.col = value[2],
                        !.pc = IF caller.fn = "getmaxyx" THEN "restore" ELSE "exit_guard"]

\* the innermost call returns value: to its caller, or to the program
Return(value) ==
    LET n == Len(stk)
    IN  /\ stk' = IF n = 1 THEN <<>>
                  ELSE Append(SubSeq(stk, 1, n - 2), Resume(stk[n - 1], value))
        /\ last' = IF n = 1
                   THEN [op |-> "return", fn |-> stk[n].fn, value |-> value,
                         pre |-> stk[n].pre, cur |-> stk[n].cur]
                   ELSE last

\* the innermost call raises: every call site is inside the caller's
\* with cbreakmode block, which the error leaves next
Raise ==
    LET n == Len(stk)
    IN  /\ stk' = IF n = 1 THEN <<>>
                  ELSE Append(SubSeq(stk, 1, n - 2), [stk[n - 1] EXCEPT !.pc = "exit_guard"])
        /\ last' = IF n = 1
                   THEN [op |-> "raise", fn |-> stk[n].fn, value |-> <<0, 0>>,
                         pre |-> stk[n].pre, cur |-> stk[n].cur]
                   ELSE last

-----------------------------------------------------------------------------
(* _readyx. *)

\* int(s, 10) for a string of digits
RECURSIVE int(_)
int(ds) ==
    IF ds = <<>> THEN 0
    ELSE 10 * int(SubSeq(ds, 1, Len(ds) - 1))
         + (CHOOSE v \in 0..9 : DigitChars[v + 1] = ds[Len(ds)])

\* how many digits stand in p from position i on
RECURSIVE DigitRun(_, _)
DigitRun(p, i) ==
    IF i <= Len(p) /\ p[i] \in Digits THEN 1 + DigitRun(p, i + 1) ELSE 0

\* a match of \[(\d+);(\d+)R that starts at position i of p: <<group 1,
\* group 2>>, or <<>> when there is none
MatchAt(p, i) ==
    LET n1 == DigitRun(p, i + 1)
        semi == i + 1 + n1
        n2 == DigitRun(p, semi + 1)
        r == semi + 1 + n2
    IN  IF /\ p[i] = "["
           /\ n1 >= 1
           /\ semi <= Len(p) /\ p[semi] = ";"
           /\ n2 >= 1
           /\ r <= Len(p) /\ p[r] = "R"
        THEN <<SubSeq(p, i + 1, semi - 1), SubSeq(p, semi + 1, r - 1)>>
        ELSE <<>>

\* re.match: the pattern is tried at the start of p only
re_match(p) ==
    IF p = <<>> THEN <<>> ELSE MatchAt(p, 1)

\* re.search(r'\[(\d+);(\d+)R', p): the leftmost match, or <<>> for None
re_search(p) ==
    LET starts == {i \in 1..Len(p) : MatchAt(p, i) # <<>>}
    IN  IF starts = {} THEN <<>>
        ELSE CHOOSE m \in {MatchAt(p, i) : i \in {k \in starts : \A j \in starts : k <= j}} : TRUE

\* lines 110-114: the pair _readyx returns for the accumulated bytes p
readyx_result(p) ==
    IF p # <<>> /\ re_search(p) # <<>>
    THEN <<int(re_search(p)[1]), int(re_search(p)[2])>>
    ELSE <<0, 0>>

\* the loop of lines 104-109 without its break: it reads on past an 'R'
readyx_read_past_R ==
    /\ stk # <<>>
    /\ LET n == Len(stk)
           f == stk[n]
       IN  /\ f.fn = "_readyx"
           /\ f.pc = "read"
           /\ \E c \in {""} \cup {inq[i] : i \in 1..Len(inq)} :
               /\ stream_read(c)
               /\ out' = Append(out, Ev("read", c, 0, 0, f.tty))
               /\ stk' = [stk EXCEPT ![n] =
                            IF c = "" THEN [f EXCEPT !.pc = "parse"]
                            ELSE [f EXCEPT !.p = Append(f.p, c)]]
    /\ UNCHANGED <<attrs, wire, term, cursor, guards, exc, streams, setcalls, last>>

\* lines 104-109: one stream.read(1) and what the loop does with the byte
readyx_read ==
    /\ stk # <<>>
    /\ LET n == Len(stk)
           f == stk[n]
       IN  /\ f.fn = "_readyx"
           /\ f.pc = "read"
           /\ \E c \in {""} \cup {inq[i] : i \in 1..Len(inq)} :
               /\ stream_read(c)
               /\ out' = Append(out, Ev("read", c, 0, 0, f.tty))
               /\ stk' = [stk EXCEPT ![n] =
                            IF c = "" THEN [f EXCEPT !.pc = "parse"]
                            ELSE [f EXCEPT !.p = Append(f.p, c),
                                           !.pc = IF c = "R" THEN "parse" ELSE "read"]]
    /\ UNCHANGED <<attrs, wire, term, cursor, guards, exc, streams, setcalls, last>>

\* lines 110-114: _readyx returns
readyx_return ==
    /\ stk # <<>>
    /\ stk[Len(stk)].fn = "_readyx"
    /\ stk[Len(stk)].pc = "parse"
    /\ Return(readyx_result(stk[Len(stk)].p))
    /\ UNCHANGED <<attrs, inq, wire, out, term, cursor, guards, exc, streams, setcalls>>

-----------------------------------------------------------------------------
(* SpecRead: one call of _readyx on a stream that holds any byte sequence  *)
(* of Streams, read in the mode getyx reads in.                            *)

\* the longest byte sequence of the exhaustive part of Streams
MaxLen == 6

Alphabet == {"[", ";", "R", "0", "1", "x"}

\* the reply to a cursor at row 24, column 80; no byte; and a reply between
\* noise and bytes that follow it
Reply2480 == <<ESC, "[", "2", "4", ";", "8", "0", "R">>
NoBytes == <<>>
GarbageReply55Trailing ==
    <<"g", "a", "r", "b", "a", "g", "e", ESC, "[", "5", ";", "5", "R",
      "t", "r", "a", "i", "l", "i", "n", "g">>

\* longer streams: leading zeros, a second reply after the first, a broken
\* reply before a whole one, a reply with an empty field
LongStreams ==
    { <<"x", "[", "1", "0", ";", "0", "7", "R", "R">>,
      <<ESC, "[", "3", ";", "4", "R", ESC, "[", "9", ";", "9", "R">>,
      <<"[", "1", ";", "[", "1", "2", ";", "6", "R">>,
      <<ESC, "[", ";", "5", "R", "[", "7", ";", "7", "R">>,
      <<ESC, "[", "2", "4", ";", "8", "0">> }

Streams ==
    UNION {[1..n -> Alphabet] : n \in 0..MaxLen}
    \cup {Reply2480, NoBytes, GarbageReply55Trailing}
    \cup LongStreams

InitRead ==
    /\ attrs = setcbreak_mode(CookedMode, 0, 1)
    /\ inq \in Streams
    /\ wire = <<>>
    /\ out = <<>>
    /\ term = [kind |-> "mute", size |-> <<24, 80>>]
    /\ cursor = <<1, 1>>
    /\ guards = <<>>
    /\ exc = "none"
    /\ stk = <<Frame("_readyx", "read", 1)>>
    /\ streams = <<[open |-> TRUE, closes |-> 0]>>
    /\ setcalls = 0
    /\ last = NoEvent

NextRead == readyx_read \/ readyx_return

SpecRead == InitRead /\ [][NextRead]_vars

-----------------------------------------------------------------------------
(* The terminal at the other end of the device. *)

\* how a terminal answers DSR 6: at once; late (the reply arrives at any
\* later time); never; or with a reply that lost its end or its separator
TermKinds == {"prompt", "slow", "mute", "garbled"}

\* str(n) for n >= 0, the '%d' of line 144 and of the terminal's reply
RECURSIVE Decimal(_)
Decimal(n) ==
    IF n < 10 THEN <<DigitChars[n + 1]>>
    ELSE Decimal(n \div 10) \o <<DigitChars[(n % 10) + 1]>>

\* the reply ESC [ row ; col R that line 111 expects
ReplyBytes(pos) ==
    <<ESC, "[">> \o Decimal(pos[1]) \o <<";">> \o Decimal(pos[2]) \o <<"R">>

\* a reply that lost its last byte, and one that lost its ';'
Garbled(reply) ==
    { SubSeq(reply, 1, Len(reply) - 1),
      SelectSeq(reply, LAMBDA ch : ch # ";") }

\* where ESC [ row ; col f puts the cursor: inside the screen
Clamp(row, col) ==
    <<IF row < 1 THEN 1 ELSE IF row > term.size[1] THEN term.size[1] ELSE row,
      IF col < 1 THEN 1 ELSE IF col > term.size[2] THEN term.size[2] ELSE col>>

\* the terminal receives ESC[6n with its cursor at pos
Answer(pos) ==
    CASE term.kind = "prompt" -> inq' = inq \o ReplyBytes(pos) /\ wire' = wire
      [] term.kind = "slow" -> wire' = wire \o ReplyBytes(pos) /\ inq' = inq
      [] term.kind = "garbled" ->
            /\ \E g \in Garbled(ReplyBytes(pos)) : inq' = inq \o g
            /\ wire' = wire
      [] OTHER -> UNCHANGED <<inq, wire>>

\* a byte of a late reply arrives
Deliver ==
    /\ wire # <<>>
    /\ inq' = Append(inq, Head(wire))
    /\ wire' = Tail(wire)
    /\ UNCHANGED <<attrs, out, term, cursor, guards, exc, stk, streams, setcalls, last>>

-----------------------------------------------------------------------------
(* ttystream, getyx and getmaxyx.  The program counter of a frame:         *)
(*   open        with ttystream() as tty                 (122, 137)        *)
(*   check       row = col = 0; if tty is not None       (123-124, 138-139)*)
(*   enter_guard with cbreakmode(tty, min=0, time=1)     (125, 140)        *)
(*   write       tty.write('\033[6n')                    (126)             *)
(*   call_getyx  savedyx = getyx(), to be called         (141)             *)
(*   savedyx     savedyx = getyx(), waiting              (141)             *)
(*   jump        tty.write('\033[10000;10000f\033[6n')   (142)             *)
(*   read        row, col = _readyx(tty), waiting        (127, 143)        *)
(*   restore     tty.write('\033[%d;%df' % savedyx)      (144)             *)
(*   exit_guard  cbreakmode.__exit__                     (125, 140)        *)
(*   flush       tty.flush()                             (128, 145)        *)
(*   exit_tty    ttystream.__exit__, then return         (129, 146)        *)

Top == stk[Len(stk)]

InQuery(pc) ==
    /\ stk # <<>>
    /\ Top.fn \in {"getyx", "getmaxyx"}
    /\ Top.pc = pc

\* the stack with the innermost frame replaced
SetTop(f) == [stk EXCEPT ![Len(stk)] = f]

\* The outcomes of ttystream.__enter__: the stream; or os.open raises, or
\* os.fdopen raises, an EnvironmentError, and the result is None.
OpenOutcomes == {"ok", "open_raises", "fdopen_raises"}

\* ttystream.__enter__ that lets the error of os.open pass
ttystream_enter_raises(o) ==
    /\ streams' = IF o = "ok" THEN Append(streams, [open |-> TRUE, closes |-> 0]) ELSE streams
    /\ out' = Append(out, Ev("open", o, 0, 0, IF o = "ok" THEN Len(streams) + 1 ELSE 0))
    /\ stk' = SetTop([Top EXCEPT !.tty = IF o = "ok" THEN Len(streams) + 1 ELSE 0,
                                 !.pc = IF o = "ok" THEN "check" ELSE "exit_tty"])
    /\ exc' = IF o = "ok" THEN exc ELSE "EnvironmentError"

\* ttystream.__enter__, lines 87-94, with outcome o: tty is the new stream
\* or None
ttystream_enter(o) ==
    /\ streams' = IF o = "ok" THEN Append(streams, [open |-> TRUE, closes |-> 0]) ELSE streams
    /\ out' = Append(out, Ev("open", o, 0, 0, IF o = "ok" THEN Len(streams) + 1 ELSE 0))
    /\ stk' = SetTop([Top EXCEPT !.tty = IF o = "ok" THEN Len(streams) + 1 ELSE 0,
                                 !.pc = "check"])
    /\ exc' = exc

\* ttystream.__exit__ that closes only when the block ended without an error
ttystream_exit_skips_on_error(tty) ==
    IF tty = 0 \/ exc # "none"
    THEN UNCHANGED <<streams, out>>
    ELSE /\ streams' = [streams EXCEPT ![tty] = [open |-> FALSE, closes |-> @.closes + 1]]
         /\ out' = Append(out, Ev("close", "", 0, 0, tty))

\* ttystream.__exit__, lines 96-98
ttystream_exit(tty) ==
    IF tty = 0
    THEN UNCHANGED <<streams, out>>
    ELSE /\ streams' = [streams EXCEPT ![tty] = [open |-> FALSE, closes |-> @.closes + 1]]
         /\ out' = Append(out, Ev("close", "", 0, 0, tty))

\* getyx() or getmaxyx() is called by the program
Call ==
    /\ stk = <<>>
    /\ last = NoEvent
    /\ \E fn \in {"getyx", "getmaxyx"} :
        /\ stk' = <<Frame(fn, "open", 0)>>
        /\ last' = [op |-> "call", fn |-> fn]
    /\ UNCHANGED <<attrs, inq, wire, out, term, cursor, guards, exc, streams, setcalls>>

\* lines 122, 137: with ttystream() as tty
Query_open ==
    /\ InQuery("open")
    /\ \E o \in OpenOutcomes : ttystream_enter(o)
    /\ UNCHANGED <<attrs, inq, wire, term, cursor, guards, setcalls, last>>

\* lines 123-124, 138-139: row = col = 0; if tty is not None
Query_check ==
    /\ InQuery("check")
    /\ stk' = SetTop([Top EXCEPT !.row = 0, !.col = 0,
                                 !.pc = IF Top.tty # 0 THEN "enter_guard" ELSE "exit_tty"])
    /\ UNCHANGED <<attrs, inq, wire, out, term, cursor, guards, exc, streams, setcalls, last>>

\* lines 125, 140 as with cbreakmode(tty): the defaults min=1, time=0
Query_enter_guard_default_args ==
    /\ InQuery("enter_guard")
    /\ \E o \in EnterOutcomes :
        /\ cbreakmode_enter(TCSAFLUSH, 1, 0, o)
        /\ out' = Append(out, Ev("enter", o, 0, 0, Top.tty))
        /\ exc' = IF o = "ok" THEN exc ELSE "DeviceError"
        /\ stk' = SetTop([Top EXCEPT !.pc =
                            IF o # "ok" THEN "exit_tty"
                            ELSE IF Top.fn = "getyx" THEN "write" ELSE "call_getyx"])
    /\ UNCHANGED <<wire, term, cursor, streams, last>>

\* lines 125, 140: with cbreakmode(tty, min=0, time=1), entered
Query_enter_guard ==
    /\ InQuery("enter_guard")
    /\ \E o \in EnterOutcomes :
        /\ cbreakmode_enter(TCSAFLUSH, 0, 1, o)
        /\ out' = Append(out, Ev("enter", o, 0, 0, Top.tty))
        /\ exc' = IF o = "ok" THEN exc ELSE "DeviceError"
        /\ stk' = SetTop([Top EXCEPT !.pc =
                            IF o # "ok" THEN "exit_tty"
                            ELSE IF Top.fn = "getyx" THEN "write" ELSE "call_getyx"])
    /\ UNCHANGED <<wire, term, cursor, streams, last>>

\* line 126: tty.write('\033[6n'), then line 127 calls _readyx(tty)
getyx_write ==
    /\ InQuery("write")
    /\ Top.fn = "getyx"
    /\ \/ /\ out' = Append(out, Ev("write", "DSR", 0, 0, Top.tty))
          /\ Answer(cursor)
          /\ stk' = Append(SetTop([Top EXCEPT !.pc = "read"]), Frame("_readyx", "read", Top.tty))
          /\ exc' = exc
       \/ /\ exc' = "IOError"
          /\ stk' = SetTop([Top EXCEPT !.pc = "exit_guard"])
          /\ UNCHANGED <<out, inq, wire>>
    /\ UNCHANGED <<attrs, term, cursor, guards, streams, setcalls, last>>

\* line 141: savedyx = getyx() is called
getmaxyx_getyx ==
    /\ InQuery("call_getyx")
    /\ Top.fn = "getmaxyx"
    /\ stk' = Append(SetTop([Top EXCEPT !.pc = "savedyx"]), Frame("getyx", "open", 0))
    /\ UNCHANGED <<attrs, inq, wire, out, term, cursor, guards, exc, streams, setcalls, last>>

\* line 142 without its query: only the jump is written
getmaxyx_jump_without_query ==
    /\ InQuery("jump")
    /\ Top.fn = "getmaxyx"
    /\ \/ /\ out' = Append(out, Ev("write", "CUP", 10000, 10000, Top.tty))
          /\ cursor' = Clamp(10000, 10000)
          /\ stk' = Append(SetTop([Top EXCEPT !.pc = "read"]), Frame("_readyx", "read", Top.tty))
          /\ exc' = exc
          /\ UNCHANGED <<inq, wire>>
       \/ /\ exc' = "IOError"
          /\ stk' = SetTop([Top EXCEPT !.pc = "exit_guard"])
          /\ UNCHANGED <<out, inq, wire, cursor>>
    /\ UNCHANGED <<attrs, term, guards, streams, setcalls, last>>

\* line 142: tty.write('\033[10000;10000f\033[6n'), then line 143 calls
\* _readyx(tty)
getmaxyx_jump ==
    /\ InQuery("jump")
    /\ Top.fn = "getmaxyx"
    /\ \/ /\ out' = out \o <<Ev("write", "CUP", 10000, 10000, Top.tty),
                             Ev("write", "DSR", 0, 0, Top.tty)>>
          /\ cursor' = Clamp(10000, 10000)
          /\ Answer(Clamp(10000, 10000))
          /\ stk' = Append(SetTop([Top EXCEPT !.pc = "read"]), Frame("_readyx", "read", Top.tty))
          /\ exc' = exc
       \/ /\ exc' = "IOError"
          /\ stk' = SetTop([Top EXCEPT !.pc = "exit_guard"])
          /\ UNCHANGED <<out, inq, wire, cursor>>
    /\ UNCHANGED <<attrs, term, guards, streams, setcalls, last>>

\* line 144 formatting (row, col), the size just read, instead of savedyx
getmaxyx_restore_uses_size ==
    /\ InQuery("restore")
    /\ Top.fn = "getmaxyx"
    /\ \/ /\ out' = Append(out, Ev("write", "CUP", int(Decimal(Top.row)),
                                   int(Decimal(Top.col)), Top.tty))
          /\ cursor' = Clamp(int(Decimal(Top.row)), int(Decimal(Top.col)))
          /\ exc' = exc
       \/ /\ exc' = "IOError"
          /\ UNCHANGED <<out, cursor>>
    /\ stk' = SetTop([Top EXCEPT !.pc = "exit_guard"])
    /\ UNCHANGED <<attrs, inq, wire, term, guards, streams, setcalls, last>>

\* line 144 under an if: no cursor move when getyx() gave the (0,0) sentinel
getmaxyx_restore_skips_unknown ==
    /\ InQuery("restore")
    /\ Top.fn = "getmaxyx"
    /\ \/ /\ out' = IF Top.savedyx = <<0, 0>> THEN out
                    ELSE Append(out, Ev("write", "CUP", int(Decimal(Top.savedyx[1])),
                                        int(Decimal(Top.savedyx[2])), Top.tty))
          /\ cursor' = IF Top.savedyx = <<0, 0>> THEN cursor
                       ELSE Clamp(int(Decimal(Top.savedyx[1])), int(Decimal(Top.savedyx[2])))
          /\ exc' = exc
       \/ /\ exc' = "IOError"
          /\ UNCHANGED <<out, cursor>>
    /\ stk' = SetTop([Top EXCEPT !.pc = "exit_guard"])
    /\ UNCHANGED <<attrs, inq, wire, term, guards, streams, setcalls, last>>

\* line 144: tty.write('\033[%d;%df' % savedyx)
getmaxyx_restore ==
    /\ InQuery("restore")
    /\ Top.fn = "getmaxyx"
    /\ \/ /\ out' = Append(out, Ev("write", "CUP", int(Decimal(Top.savedyx[1])),
                                   int(Decimal(Top.savedyx[2])), Top.tty))
          /\ cursor' = Clamp(int(Decimal(Top.savedyx[1])), int(Decimal(Top.savedyx[2])))
          /\ exc' = exc
       \/ /\ exc' = "IOError"
          /\ UNCHANGED <<out, cursor>>
    /\ stk' = SetTop([Top EXCEPT !.pc = "exit_guard"])
    /\ UNCHANGED <<attrs, inq, wire, term, guards, streams, setcalls, last>>

\* the with cbreakmode block left through an __exit__ that catches the error
\* of its tcsetattr and returns
Query_exit_guard_swallows ==
    /\ InQuery("exit_guard")
    /\ \E o \in ExitOutcomes :
        /\ cbreakmode_exit(o)
        /\ out' = Append(out, Ev("exit", o, 0, 0, Top.tty))
        /\ exc' = exc
        /\ stk' = SetTop([Top EXCEPT !.pc = IF exc = "none" THEN "flush" ELSE "exit_tty"])
    /\ UNCHANGED <<wire, term, cursor, streams, last>>

\* lines 125, 140: the with cbreakmode block is left, by its body ending or
\* by an error; after it comes the flush, unless an error is passing
Query_exit_guard ==
    /\ InQuery("exit_guard")
    /\ \E o \in ExitOutcomes :
        /\ cbreakmode_exit(o)
        /\ out' = Append(out, Ev("exit", o, 0, 0, Top.tty))
        /\ exc' = IF o = "ok" THEN exc ELSE "DeviceError"
        /\ stk' = SetTop([Top EXCEPT !.pc =
                            IF o = "ok" /\ exc = "none" THEN "flush" ELSE "exit_tty"])
    /\ UNCHANGED <<wire, term, cursor, streams, last>>

\* lines 128, 145: tty.flush()
Query_flush ==
    /\ InQuery("flush")
    /\ \/ /\ out' = Append(out, Ev("flush", "", 0, 0, Top.tty))
          /\ exc' = exc
       \/ /\ exc' = "IOError"
          /\ out' = out
    /\ stk' = SetTop([Top EXCEPT !.pc = "exit_tty"])
    /\ UNCHANGED <<attrs, inq, wire, term, cursor, guards, streams, setcalls, last>>

\* lines 129, 146 and 96-98: the with ttystream block is left, and the
\* function returns (row, col) or the error goes on to its caller
Query_exit_tty ==
    /\ InQuery("exit_tty")
    /\ ttystream_exit(Top.tty)
    /\ IF exc = "none" THEN Return(<<Top.row, Top.col>>) ELSE Raise
    /\ UNCHANGED <<attrs, inq, wire, term, cursor, guards, exc, setcalls>>

-----------------------------------------------------------------------------
(* SpecQuery: one call of getyx() or getmaxyx() by a program whose         *)
(* terminal is in line mode or in raw mode, against each kind of terminal. *)

QueryModes == {CookedMode, setraw_mode(CookedMode, 1, 0)}

InitQuery ==
    /\ attrs \in QueryModes
    /\ inq = <<>>
    /\ wire = <<>>
    /\ out = <<>>
    /\ term \in [kind : TermKinds, size : {<<24, 80>>}]
    /\ cursor \in {<<1, 1>>, <<7, 12>>}
    /\ guards = <<>>
    /\ exc = "none"
    /\ stk = <<>>
    /\ streams = <<>>
    /\ setcalls = 0
    /\ last = NoEvent

NextQuery ==
    \/ Call
    \/ Query_open
    \/ Query_check
    \/ Query_enter_guard
    \/ getyx_write
    \/ getmaxyx_getyx
    \/ getmaxyx_jump
    \/ getmaxyx_restore
    \/ readyx_read
    \/ readyx_return
    \/ Query_exit_guard
    \/ Query_flush
    \/ Query_exit_tty
    \/ Deliver

SpecQuery == InitQuery /\ [][NextQuery]_vars

\* a step of the program; Deliver is the terminal's
QueryStep ==
    \/ Call
    \/ Query_open
    \/ Query_check
    \/ Query_enter_guard
    \/ getyx_write
    \/ getmaxyx_getyx
    \/ getmaxyx_jump
    \/ getmaxyx_restore
    \/ readyx_read
    \/ readyx_return
    \/ Query_exit_guard
    \/ Query_flush
    \/ Query_exit_tty

\* SpecQuery for a program that keeps running: a step it can take is taken
\* in the end (a system call returns, a read with VMIN = 0 times out).
\* Nothing is asked of the terminal: a late reply may never arrive.
SpecQueryFair == InitQuery /\ [][NextQuery]_vars /\ WF_vars(QueryStep)

-----------------------------------------------------------------------------
(* SpecProgram: a program that either opens and leaves mode scopes, as in  *)
(* Spec, or calls getyx() or getmaxyx(), as in SpecQuery.                  *)

\* the program of Spec is running: last tells so from the start (history)
ScopesRunning == stk = <<>> /\ last.op \in {"scopes", "enter", "body", "exit", "caught"}

InitProgram ==
    \/ InitQuery
    \/ /\ attrs \in BodyModes
       /\ inq = <<>>
       /\ wire = <<>>
       /\ out = <<>>
       /\ term = [kind |-> "mute", size |-> <<24, 80>>]
       /\ cursor = <<1, 1>>
       /\ guards = <<>>
       /\ exc = "none"
       /\ stk = <<>>
       /\ streams = <<>>
       /\ setcalls = 0
       /\ last = [op |-> "scopes"]

NextProgram ==
    \/ ScopesRunning /\ Next
    \/ NextQuery

SpecProgram == InitProgram /\ [][NextProgram]_vars

-----------------------------------------------------------------------------
(* Claims about the mode guards, checked under Spec. *)

\* the last operation left a scope and its tcsetattr succeeded
ScopeLeft == last.op = "exit" /\ last.outcome = "ok"

\* C1: once a rawmode or cbreakmode scope is left, the device's attributes
\* (every flag word, both speeds, every control character) are the ones it
\* had right before the scope was entered, whether the body returned, raised
\* or changed the attributes itself.
C1_ScopeRestores ==
    ScopeLeft => attrs = last.pre

\* a scope whose body set other attributes and then raised has been left, and
\* leaving it changed the device's attributes back
C1_Witness ==
    /\ ScopeLeft
    /\ last.body = "BodyError"
    /\ last.pre = CookedMode
    /\ last.before = FullMode
    /\ attrs = CookedMode

\* the last operation left, with success, a rawmode scope inside which a
\* cbreakmode scope had been opened and closed
RawAroundCbreakLeft ==
    ScopeLeft /\ last.kind = "raw" /\ last.child = "cbreak"

\* C2: after enter rawmode, enter cbreakmode, exit cbreakmode, exit rawmode on
\* the same descriptor, the attributes are the snapshot the outer raw guard
\* holds, which is what the device had before rawmode was entered.
C2_NestedRestoresOuter ==
    RawAroundCbreakLeft => (attrs = last.saved /\ last.saved = last.pre)

\* the nested scopes have both been left on a terminal that was in line mode:
\* right before the outer exit the device still had the intermediate
\* attributes (ICANON cleared), and now it has the line mode back
C2_Witness ==
    /\ RawAroundCbreakLeft
    /\ guards = <<>>
    /\ last.before[LFLAG] \cap ICANON = {}
    /\ ICANON \subseteq attrs[LFLAG]
    /\ attrs = CookedMode

\* the last operation was an __enter__ whose own attribute read raised
AcquisitionReadFailed == last.op = "enter" /\ last.outcome = "read_raises"

\* C10: when the attribute read of __enter__ fails, the acquisition fails
\* with that error, no tcsetattr call is made, the scope is not opened (so
\* no release will run for it) and the device's attributes are unchanged.
C10_FailedReadChangesNothing ==
    AcquisitionReadFailed =>
        /\ exc = "DeviceError"
        /\ setcalls = 0
        /\ Len(guards) = last.depth
        /\ attrs = last.pre

\* the attribute read of a cbreakmode __enter__ failed, inside an open scope,
\* on a device that has ECHO and ICANON set
C10_Witness ==
    /\ AcquisitionReadFailed
    /\ last.kind = "cbreak"
    /\ guards # <<>>
    /\ (ECHO \cup ICANON) \subseteq attrs[LFLAG]

-----------------------------------------------------------------------------
(* Claims about the mode setters, checked under SpecSet. *)

\* the last operation was a call of setraw that returned
SetrawReturned == last.op = "setraw" /\ last.outcome = "ok"

\* the last operation was a call of setcbreak that returned
SetcbreakReturned == last.op = "setcbreak" /\ last.outcome = "ok"

\* C3: whatever the attributes were, the attributes read back right after
\* setraw(fd, when, min, time) have ECHO, ICANON, IEXTEN and ISIG cleared, the
\* character size equal to CS8 and PARENB cleared, BRKINT, ICRNL, INPCK,
\* ISTRIP and IXON cleared, OPOST cleared, CC[VMIN] = min and CC[VTIME] = time.
C3_SetrawReadback ==
    SetrawReturned =>
        LET m == tcgetattr
        IN  /\ m[LFLAG] \cap (ECHO \cup ICANON \cup IEXTEN \cup ISIG) = {}
            /\ m[CFLAG] \cap CSIZE = CS8
            /\ m[CFLAG] \cap PARENB = {}
            /\ m[IFLAG] \cap (BRKINT \cup ICRNL \cup INPCK \cup ISTRIP \cup IXON) = {}
            /\ m[OFLAG] \cap OPOST = {}
            /\ m[CC][VMIN] = last.min
            /\ m[CC][VTIME] = last.time

\* setraw returned on a device that had every bit setraw clears set, parity
\* on, a character size other than CS8 and other VMIN and VTIME values
C3_Witness ==
    /\ SetrawReturned
    /\ (ECHO \cup ICANON \cup IEXTEN \cup ISIG) \subseteq last.pre[LFLAG]
    /\ (BRKINT \cup ICRNL \cup INPCK \cup ISTRIP \cup IXON) \subseteq last.pre[IFLAG]
    /\ OPOST \subseteq last.pre[OFLAG]
    /\ PARENB \subseteq last.pre[CFLAG]
    /\ last.pre[CFLAG] \cap CSIZE # CS8
    /\ last.pre[CC][VMIN] # last.min
    /\ last.pre[CC][VTIME] # last.time

\* C4: setcbreak(fd, when, min, time) clears ECHO and ICANON and nothing
\* else: the input, output and control flags, both speeds, every other
\* local-flag bit (ISIG and IEXTEN among them) and every control character
\* other than VMIN and VTIME are what they were before the call.
C4_SetcbreakFrame ==
    SetcbreakReturned =>
        /\ attrs[LFLAG] = last.pre[LFLAG] \ (ECHO \cup ICANON)
        /\ attrs[IFLAG] = last.pre[IFLAG]
        /\ attrs[OFLAG] = last.pre[OFLAG]
        /\ attrs[CFLAG] = last.pre[CFLAG]
        /\ attrs[ISPEED] = last.pre[ISPEED]
        /\ attrs[OSPEED] = last.pre[OSPEED]
        /\ \A s \in CcSlots \ {VMIN, VTIME} : attrs[CC][s] = last.pre[CC][s]

\* setcbreak returned on a device that had ECHO, ICANON, ISIG and IEXTEN set,
\* and it changed the attributes
C4_Witness ==
    /\ SetcbreakReturned
    /\ (ECHO \cup ICANON \cup IEXTEN \cup ISIG) \subseteq last.pre[LFLAG]
    /\ ISIG \subseteq attrs[LFLAG]
    /\ IEXTEN \subseteq attrs[LFLAG]
    /\ OPOST \subseteq attrs[OFLAG]
    /\ attrs # last.pre

\* C20: setraw(fd, when, min, time) changes nothing but its listed bits: the
\* input-flag bits other than BRKINT, ICRNL, INPCK, ISTRIP and IXON, the
\* output-flag bits other than OPOST, the control-flag bits outside CSIZE and
\* PARENB, the local-flag bits other than ECHO, ICANON, IEXTEN and ISIG, both
\* speeds and every control character other than VMIN and VTIME keep their
\* values.
C20_SetrawFrame ==
    SetrawReturned =>
        /\ attrs[IFLAG] \ (BRKINT \cup ICRNL \cup INPCK \cup ISTRIP \cup IXON)
             = last.pre[IFLAG] \ (BRKINT \cup ICRNL \cup INPCK \cup ISTRIP \cup IXON)
        /\ attrs[OFLAG] \ OPOST = last.pre[OFLAG] \ OPOST
        /\ attrs[CFLAG] \ (CSIZE \cup PARENB) = last.pre[CFLAG] \ (CSIZE \cup PARENB)
        /\ attrs[LFLAG] \ (ECHO \cup ICANON \cup IEXTEN \cup ISIG)
             = last.pre[LFLAG] \ (ECHO \cup ICANON \cup IEXTEN \cup ISIG)
        /\ attrs[ISPEED] = last.pre[ISPEED]
        /\ attrs[OSPEED] = last.pre[OSPEED]
        /\ \A s \in CcSlots \ {VMIN, VTIME} : attrs[CC][s] = last.pre[CC][s]

\* setraw returned on a device that had a bit outside the listed ones set in
\* every flag word, and those bits are still set
C20_Witness ==
    /\ SetrawReturned
    /\ last.pre = FullMode
    /\ "IGNBRK" \in attrs[IFLAG]
    /\ "ONLCR" \in attrs[OFLAG]
    /\ "CREAD" \in attrs[CFLAG]
    /\ "ECHOE" \in attrs[LFLAG]
    /\ attrs # last.pre

-----------------------------------------------------------------------------
(* Claims about _readyx, checked under SpecRead. *)

\* the bytes the reads have returned so far, in order
BytesRead ==
    LET reads == SelectSeq(out, LAMBDA ev : ev.e = "read" /\ ev.what # "")
    IN  [i \in 1..Len(reads) |-> reads[i].what]

\* every byte the stream held when _readyx was called
StreamBytes == BytesRead \o inq

\* s up to and including its first 'R'; all of s when it holds no 'R'
UpToFirstR(s) ==
    LET rs == {k \in 1..Len(s) : s[k] = "R"}
    IN  IF rs = {} THEN s ELSE SubSeq(s, 1, CHOOSE k \in rs : \A j \in rs : k <= j)

\* the base-10 number a string of digits writes, read from the left
RECURSIVE Base10(_, _)
Base10(ds, acc) ==
    IF ds = <<>> THEN acc
    ELSE Base10(Tail(ds), 10 * acc + (CHOOSE v \in 0..9 : DigitChars[v + 1] = Head(ds)))

IsNumber(ds) == ds # <<>> /\ \A k \in 1..Len(ds) : ds[k] \in Digits

\* b holds '[' at i and ';' at j, ends in 'R', and has digits only, and at
\* least one, between '[' and ';' and between ';' and 'R'
ReplyAt(b, i, j) ==
    /\ i < j
    /\ b[i] = "["
    /\ b[j] = ";"
    /\ b[Len(b)] = "R"
    /\ IsNumber(SubSeq(b, i + 1, j - 1))
    /\ IsNumber(SubSeq(b, j + 1, Len(b) - 1))

ReadyxReturned == last.op = "return" /\ last.fn = "_readyx"

\* C6: _readyx returns the row and column, as base-10 numbers, of the pattern
\* [<digits>;<digits>R in the bytes up to and including the first 'R',
\* whatever precedes the '[' and whatever follows the 'R' in the stream; it
\* returns (0,0) when those bytes do not hold the pattern (nothing read, no
\* 'R' before the empty read, no match).  ESC[24;80R gives (24,80), no byte
\* gives (0,0), garbage ESC[5;5R trailing gives (5,5).
C6_ReadyxParses ==
    ReadyxReturned =>
        LET b == UpToFirstR(StreamBytes)
            places == {ij \in (1..Len(b)) \X (1..Len(b)) : ReplyAt(b, ij[1], ij[2])}
        IN  /\ \A ij \in places :
                 last.value = <<Base10(SubSeq(b, ij[1] + 1, ij[2] - 1), 0),
                                Base10(SubSeq(b, ij[2] + 1, Len(b) - 1), 0)>>
            /\ places = {} => last.value = <<0, 0>>
            /\ BytesRead = b
            /\ StreamBytes = Reply2480 => last.value = <<24, 80>>
            /\ StreamBytes = NoBytes => last.value = <<0, 0>>
            /\ StreamBytes = GarbageReply55Trailing => last.value = <<5, 5>>

\* _readyx has returned (5,5) for the reply that stands between noise and
\* trailing bytes, and the trailing bytes are still in the stream
C6_Witness ==
    /\ ReadyxReturned
    /\ StreamBytes = GarbageReply55Trailing
    /\ last.value = <<5, 5>>
    /\ inq = <<"t", "r", "a", "i", "l", "i", "n", "g">>

\* C13: _readyx reads one byte per read call and stops at the first 'R' or at
\* the first empty read, whichever comes first: no read follows a read that
\* returned 'R' (the bytes after the first 'R' stay in the stream) and no read
\* follows an empty read.
C13_StopsAtFirstR ==
    /\ \A i \in 1..Len(out) :
         (out[i].e = "read" /\ out[i].what \in {"R", ""}) => i = Len(out)
    /\ ReadyxReturned =>
         /\ BytesRead = UpToFirstR(StreamBytes)
         /\ Len(out) = Len(BytesRead)
                         + (IF \E k \in 1..Len(StreamBytes) : StreamBytes[k] = "R" THEN 0 ELSE 1)

\* _readyx returned after reading an 'R', and left bytes with a second 'R'
\* among them in the stream
C13_Witness ==
    /\ ReadyxReturned
    /\ Len(BytesRead) >= 2
    /\ BytesRead[Len(BytesRead)] = "R"
    /\ \E k \in 1..Len(inq) : inq[k] = "R"
    /\ \A i \in 1..Len(out) : out[i].what # ""

\* C15: whenever the accumulated reply matches the pattern, _readyx gives a
\* pair of positive integers: its result is either the (0,0) sentinel or a
\* pair with row >= 1 and col >= 1, never a pair with one zero component.
\* (\d+ and int accept the digit string 0, so the reply [0;1R gives (0,1).)
C15_PositivePair ==
    ReadyxReturned =>
        \/ last.value = <<0, 0>>
        \/ last.value[1] >= 1 /\ last.value[2] >= 1

-----------------------------------------------------------------------------
(* Claims about ttystream, getyx and getmaxyx, checked under SpecQuery. *)

\* the entries of out that satisfy a test
Events(Test(_)) == SelectSeq(out, Test)

IsOpen(ev) == ev.e = "open"
IsFailedOpen(ev) == ev.e = "open" /\ ev.what # "ok"
IsGoodOpen(ev) == ev.e = "open" /\ ev.what = "ok"
IsClose(ev) == ev.e = "close"
IsWrite(ev) == ev.e = "write"
IsIO(ev) == ev.e \in {"write", "read"}

\* a query was made and the device could not be opened: every
\* ttystream.__enter__ so far found os.open or os.fdopen raising
DeviceUnavailable == out # <<>> /\ Len(Events(IsFailedOpen)) = Len(Events(IsOpen))

\* every ttystream.__enter__ so far got its stream
DeviceAvailable == Len(Events(IsGoodOpen)) = Len(Events(IsOpen))

\* the device's attributes when the program called the query
CallAttrs == IF stk # <<>> THEN stk[1].pre ELSE last.pre

QueryReturned(fn) == stk = <<>> /\ last.op = "return" /\ last.fn = fn

QueryEnded == stk = <<>> /\ last.op \in {"return", "raise"}

\* C5: when the terminal device cannot be opened, ttystream.__enter__ does
\* not raise and gives None, and getyx() and getmaxyx() return (0,0) without
\* raising, without writing anything, without reading or setting attributes.
C5_UnavailableGivesZero ==
    DeviceUnavailable =>
        /\ exc = "none"
        /\ last.op \in {"call", "return"}
        /\ \A i \in 1..Len(stk) : stk[i].tty = 0
        /\ \A i \in 1..Len(out) : out[i].e = "open"
        /\ streams = <<>>
        /\ guards = <<>>
        /\ setcalls = 0
        /\ attrs = CallAttrs
        /\ stk = <<>> => last.value = <<0, 0>>

\* getmaxyx() has returned (0,0) after its ttystream found no device
C5_Witness ==
    /\ DeviceUnavailable
    /\ QueryReturned("getmaxyx")
    /\ last.value = <<0, 0>>
    /\ out = <<Ev("open", "open_raises", 0, 0, 0)>>

\* the writes and reads of the call, in order
IOEvents == Events(IsIO)

\* the positions in io of the writes of ESC[6n
QueriesIn(io) == {i \in 1..Len(io) : io[i].e = "write" /\ io[i].what = "DSR"}

\* from position i + 1 of io on, there are reads up to one that returns 'R':
\* each returns a byte, and only the last one returns 'R'
ReplyReadAfter(io, i) ==
    \E k \in (i + 1)..Len(io) :
        /\ io[k].e = "read" /\ io[k].what = "R"
        /\ \A j \in (i + 1)..(k - 1) : io[j].e = "read" /\ io[j].what \notin {"", "R"}
        /\ k = Len(io) \/ io[k + 1].e = "write"

\* getmaxyx() has returned on a terminal that answers at once, with the
\* device available to both ttystream scopes
AnsweredWindowQuery ==
    QueryReturned("getmaxyx") /\ term.kind = "prompt" /\ DeviceAvailable

\* C7: on a terminal that answers DSR 6, one getmaxyx() writes ESC[6n exactly
\* twice, each time followed by one reply read up to the 'R': once before the
\* jump ESC[10000;10000f and once right after it.
C7_TwoRoundTrips ==
    AnsweredWindowQuery =>
        LET io == IOEvents
            qs == QueriesIn(io)
            jumps == {i \in 1..Len(io) : io[i].e = "write" /\ io[i].what = "CUP"
                                         /\ io[i].row = 10000 /\ io[i].col = 10000}
        IN  /\ Cardinality(qs) = 2
            /\ Cardinality(jumps) = 1
            /\ \A i \in qs : ReplyReadAfter(io, i)
            /\ \A j \in jumps : /\ \E i \in qs : i < j
                                /\ j + 1 \in qs
            /\ Len(SelectSeq(io, LAMBDA ev : ev.e = "read" /\ ev.what = "R")) = 2

\* getmaxyx() has returned the screen size after both round trips
C7_Witness ==
    /\ AnsweredWindowQuery
    /\ last.value = term.size
    /\ Cardinality(QueriesIn(IOEvents)) = 2

\* C8: on a terminal that answers DSR 6, the last thing getmaxyx() writes is
\* the cursor move ESC[row;colf to the position the terminal reported before
\* the jump, so the cursor ends where it was before the call.
C8_CursorRestoredLast ==
    AnsweredWindowQuery =>
        LET ws == Events(IsWrite)
        IN  /\ ws # <<>>
            /\ ws[Len(ws)].what = "CUP"
            /\ <<ws[Len(ws)].row, ws[Len(ws)].col>> = last.cur
            /\ cursor = last.cur

\* getmaxyx() has returned with the cursor back at row 7, column 12, away
\* from the corner the jump had put it in
C8_Witness ==
    /\ AnsweredWindowQuery
    /\ last.cur = <<7, 12>>
    /\ cursor = <<7, 12>>
    /\ last.value = <<24, 80>>

\* the frames whose ttystream scope holds stream s
Holders(s) ==
    {i \in 1..Len(stk) : stk[i].fn \in {"getyx", "getmaxyx"} /\ stk[i].tty = s
                         /\ stk[i].pc # "open"}

\* C9: every stream ttystream opened is closed exactly once, when its scope
\* is left, on every exit path; an unavailable device leads to no close.
\* Both streams of a getmaxyx() call are covered.
C9_ClosedExactlyOnce ==
    /\ \A s \in 1..Len(streams) :
        /\ streams[s].closes = IF streams[s].open THEN 0 ELSE 1
        /\ streams[s].open <=> Holders(s) # {}
        /\ Len(Events(LAMBDA ev : ev.e = "close" /\ ev.s = s)) = streams[s].closes
    /\ Len(Events(IsClose)) <= Len(Events(IsGoodOpen))
    /\ QueryEnded => Len(Events(IsClose)) = Len(Events(IsGoodOpen))
    /\ \A i \in 1..Len(out) :
        (out[i].e = "close") => \A j \in (i + 1)..Len(out) : out[j].s # out[i].s

\* getmaxyx() has ended with an error after opening two streams, and each
\* has been closed once
C9_Witness ==
    /\ QueryEnded
    /\ last.op = "raise"
    /\ last.fn = "getmaxyx"
    /\ Len(streams) = 2
    /\ \A s \in 1..2 : streams[s].closes = 1 /\ ~streams[s].open

\* the positions in out of the events e on stream s
EventsOn(e, s) == {i \in 1..Len(out) : out[i].e = e /\ out[i].s = s}

\* C12: in getyx() and getmaxyx(), whenever the device stream was opened, the
\* cbreak guard is released, then the stream is flushed, then the stream is
\* closed: the stream is never closed after a guard release without a flush
\* in between.  (Lines 128 and 145 stand after the with block and not in a
\* finally, so an error leaving the block skips the flush.)
C12_FlushBetweenReleaseAndClose ==
    \A s \in 1..Len(streams) :
        \A k \in EventsOn("close", s) :
            \A i \in EventsOn("exit", s) :
                (i < k /\ out[i].what = "ok") =>
                    \E j \in EventsOn("flush", s) : i < j /\ j < k

\* C16: getmaxyx() returns (0,0) or the position of the reply to its second
\* ESC[6n, the clamped last row and column; never the position of the reply
\* to the first ESC[6n, also when that reply arrives after the nested getyx()
\* stopped waiting.  (The late reply is still in the stream when line 143
\* reads, and it is read as the answer to the second query.)
C16_SecondReplyOnly ==
    QueryReturned("getmaxyx") =>
        last.value \in {<<0, 0>>, Clamp(10000, 10000)}

\* _readyx is about to call stream.read(1)
ReadPending == stk # <<>> /\ Top.fn = "_readyx" /\ Top.pc = "read"

\* mode has ECHO and ICANON cleared, VMIN = 0 and VTIME = 1
BoundedWaitCbreak(mode) ==
    /\ mode[LFLAG] \cap (ECHO \cup ICANON) = {}
    /\ mode[CC][VMIN] = 0
    /\ mode[CC][VTIME] = 1

\* C17: every read of the device by getyx() or getmaxyx() is made while the
\* attributes have ECHO and ICANON cleared, VMIN = 0 and VTIME = 1.  In
\* getmaxyx(), once the nested getyx() is over (its guard released), the
\* attributes are the cbreak(min=0, time=1) form of the pre-call attributes
\* that the outer guard applied, and not the pre-call attributes.
C17_ReadsInBoundedWaitCbreak ==
    /\ ReadPending => BoundedWaitCbreak(attrs)
    /\ (stk # <<>> /\ stk[1].fn = "getmaxyx" /\ stk[1].pc \in {"jump", "read", "restore"}) =>
         /\ attrs = setcbreak_mode(stk[1].pre, 0, 1)
         /\ attrs # stk[1].pre

\* getmaxyx() is about to read its second reply, after the guard of the
\* nested getyx() was released
C17_Witness ==
    /\ ReadPending
    /\ Len(stk) = 2
    /\ stk[1].fn = "getmaxyx"
    /\ \E i \in EventsOn("exit", 2) : out[i].what = "ok"
    /\ BoundedWaitCbreak(attrs)
    /\ ~BoundedWaitCbreak(stk[1].pre)

\* C18: after getyx() or getmaxyx() has returned a value, whatever the
\* terminal did (answered, answered garbled or truncated, answered late,
\* never answered), the attributes are what they were before the call, no
\* guard is held and no stream the call opened is open.
C18_ReturnedLeavesNothing ==
    (QueryReturned("getyx") \/ QueryReturned("getmaxyx")) =>
        /\ attrs = last.pre
        /\ guards = <<>>
        /\ \A s \in 1..Len(streams) : ~streams[s].open

\* getmaxyx() returned on a terminal that answers garbled, after two streams
\* were opened and two guards entered
C18_Witness ==
    /\ QueryReturned("getmaxyx")
    /\ term.kind = "garbled"
    /\ Len(streams) = 2
    /\ Cardinality({i \in 1..Len(out) : out[i].e = "enter" /\ out[i].what = "ok"}) = 2
    /\ attrs = last.pre

\* the bytes the reads on stream s returned
BytesReadOn(s) ==
    LET reads == SelectSeq(out, LAMBDA ev : ev.e = "read" /\ ev.what # "" /\ ev.s = s)
    IN  [i \in 1..Len(reads) |-> reads[i].what]

\* what the getyx() nested in getmaxyx() returned: (0,0) when it could not
\* open the device, else what the reply it read on its stream parses to
NestedResult == IF Len(streams) < 2 THEN <<0, 0>> ELSE readyx_result(BytesReadOn(2))

\* the writes on stream s
WritesOn(s) == SelectSeq(out, LAMBDA ev : ev.e = "write" /\ ev.s = s)

\* C19: getmaxyx() with the device available writes the jump ESC[10000;10000f
\* and the final move ESC[<row>;<col>f whatever the nested getyx() returned:
\* the final move carries the pair the nested getyx() returned, ESC[0;0f when
\* that was the (0,0) sentinel.
C19_JumpAndRestoreWritten ==
    (QueryReturned("getmaxyx") /\ streams # <<>>) =>
        /\ WritesOn(1) = << Ev("write", "CUP", 10000, 10000, 1),
                            Ev("write", "DSR", 0, 0, 1),
                            Ev("write", "CUP", NestedResult[1], NestedResult[2], 1) >>
        /\ out[Len(out) - 3].e = "write" /\ out[Len(out) - 3].what = "CUP"

\* getmaxyx() returned on a terminal that never answers, having written the
\* jump and then ESC[0;0f
C19_Witness ==
    /\ QueryReturned("getmaxyx")
    /\ term.kind = "mute"
    /\ Len(streams) = 2
    /\ Len(WritesOn(1)) = 3
    /\ WritesOn(1)[3] = Ev("write", "CUP", 0, 0, 1)

\* the longest reply the terminal sends: ESC [ 2 4 ; 8 0 R
LongestReply == Len(ReplyBytes(term.size))

\* C14: getyx() and getmaxyx() come to an end when the terminal never answers
\* ESC[6n, and whenever the terminal sends finitely many bytes, with an 'R'
\* among them or not: a read in the min=0/time=1 mode returns empty once no
\* byte arrives, so every reply-reading loop makes at most one read per byte
\* sent plus one, and the call returns (or passes on a device error).
C14_QueriesEnd ==
    /\ <>QueryEnded
    /\ [](Len(Events(LAMBDA ev : ev.e = "read"))
            <= (LongestReply + 1) * Len(Events(LAMBDA ev : ev.e = "write" /\ ev.what = "DSR")))

\* getmaxyx() returned (0,0) on a terminal that never answers, after each of
\* its two reads came back empty
C14_Witness ==
    /\ QueryReturned("getmaxyx")
    /\ term.kind = "mute"
    /\ last.value = <<0, 0>>
    /\ Len(Events(LAMBDA ev : ev.e = "read" /\ ev.what = "")) = 2
    /\ Len(Events(LAMBDA ev : ev.e = "read")) = 2

-----------------------------------------------------------------------------
(* A claim about the guards and the queries, checked under SpecProgram. *)

\* the positions in out of the guard releases whose tcsetattr failed
FailedReleases == {i \in 1..Len(out) : out[i].e = "exit" /\ out[i].what = "set_raises"}

\* C11: when the tcsetattr of a guard's __exit__ fails, the failure is not
\* swallowed: the scope is left with the device error, whether its body had
\* returned or had raised.  In getyx() and getmaxyx() the error of a failed
\* release goes on to the caller of the query, which gets it (and no value)
\* once the stream of that guard has been closed.
C11_RestoreFailurePropagates ==
    /\ (last.op = "exit" /\ last.outcome = "set_raises") => exc = "DeviceError"
    /\ \A i \in FailedReleases :
        /\ exc = "DeviceError"
        /\ last.op # "return"
        /\ stk = <<>> =>
            /\ last.op = "raise"
            /\ \E k \in EventsOn("close", out[i].s) : i < k
            /\ \A s \in 1..Len(streams) : ~streams[s].open

\* getmaxyx() ended with the device error, both streams closed, after two
\* releases failed: that of the nested getyx()'s guard, whose body had
\* returned, and then that of its own guard, whose body the error had left
C11_Witness ==
    /\ stk = <<>>
    /\ last.op = "raise"
    /\ last.fn = "getmaxyx"
    /\ exc = "DeviceError"
    /\ \E i, j \in FailedReleases :
        /\ i < j
        /\ out[i].s = 2
        /\ out[j].s = 1
        /\ \A k \in 1..i : out[k].e = "write" => out[k].what = "DSR"
    /\ \A s \in 1..Len(streams) : ~streams[s].open

====
